---- MODULE Spec2Model ----
(***************************************************************************)
(* Model of gcp/scripts/launch_rllm_job.py: the launch pipeline of main    *)
(* (cleanup, archive, uploads, values rewrite, helm uninstall/install) and *)
(* the rewrite of the values document done by override_values_yaml.        *)
(* Strings are sequences of one-character strings, so that the substring,  *)
(* prefix and replace tests of the code are computed, not assumed.         *)
(***************************************************************************)
EXTENDS Integers, Sequences, FiniteSets, TLC

VARIABLES
    pc,                        \* position in main
    job_name,                  \* argument of main
    cleanup_debug_jobs_first,  \* argument of main
    job_id,                    \* generate_job_id()
    releases,                  \* release names present in the namespace
    matching_releases,         \* local of cleanup_debug_jobs
    idx,                       \* position of the uninstall loop in matching_releases
    calls,                     \* external commands issued so far, in order
    files,                     \* temporary local files that exist
    presentAtCheck,            \* was full_job_name in the namespace at step 5
    template,                  \* the document parsed from values_yaml_path
    n_nodes,                   \* argument of main
    region,                    \* argument of main
    wandb_key_name,            \* argument of main
    tmp_values                 \* content of the temporary values file

vars == <<pc, job_name, cleanup_debug_jobs_first, job_id, releases,
          matching_releases, idx, calls, files, presentAtCheck,
          template, n_nodes, region, wandb_key_name, tmp_values>>

-----------------------------------------------------------------------------
(* Bounds of the model *)

MaxReleases == 3
MaxChunks == 2
MaxMounts == 2
MaxNodes == 2

-----------------------------------------------------------------------------
(* String literals of the program *)

RLLM == <<"r","l","l","m">>
DEBUG_PREFIX == <<"r","l","l","m","-","d","e","b","u","g">>
CKPT_PREFIX == <<"t","i","i","-","a","i","c","c","u","-","c","h","e","c","k","p","o","i","n","t","s">>
MASTER_ADDR == <<"$","M","A","S","T","E","R","_","A","D","D","R">>
LOCALHOST == <<"l","o","c","a","l","h","o","s","t">>
WANDB_DEFAULT == <<"w","a","n","d","b","-","c","r","e","d","e","n","t","i","a","l","s">>
US_CENTRAL1 == <<"u","s","-","c","e","n","t","r","a","l","1">>

(* Strings of the inputs *)

EU == <<"e","u">>
NameTrain == <<"t","r","a","i","n">>
Id0a1b2c3d == <<"0","a","1","b","2","c","3","d">>
IdDeadbeef == <<"d","e","a","d","b","e","e","f">>
RelMyRllmProd == <<"m","y","-","r","l","l","m","-","p","r","o","d">>
RelOther == <<"o","t","h","e","r">>
RelRllmDebugId == <<"r","l","l","m","-","d","e","b","u","g","-","0","a","1","b","2","c","3","d">>
RelRllmDebugOld == <<"r","l","l","m","-","d","e","b","u","g","-","o","l","d">>
RelTrainId == <<"t","r","a","i","n","-","0","a","1","b","2","c","3","d">>
RelTrainIdV2 == <<"t","r","a","i","n","-","0","a","1","b","2","c","3","d","-","v","2">>
ChunkRun == <<"r","u","n"," ">>
ChunkMaster == <<"$","M","A","S","T","E","R","_">>
BucketData == <<"d","a","t","a">>
MountPath == <<"/","c","k","p","t">>
Digits == <<"0","1","2","3","4","5","6","7","8","9">>

-----------------------------------------------------------------------------
(* Python's string operations *)

\* str.startswith
StartsWith(s, p) == Len(p) <= Len(s) /\ SubSeq(s, 1, Len(p)) = p

\* the 'in' operator on strings
Contains(s, t) ==
    \E i \in 0..(Len(s) - Len(t)) : SubSeq(s, i + 1, i + Len(t)) = t

\* a mutant of StrReplace: only the first occurrence is replaced
StrReplaceFirst(s, old, new) ==
    IF \E i \in 0..(Len(s) - Len(old)) : SubSeq(s, i + 1, i + Len(old)) = old
    THEN LET i == CHOOSE j \in 0..(Len(s) - Len(old)) :
                    /\ SubSeq(s, j + 1, j + Len(old)) = old
                    /\ \A k \in 0..(j - 1) : SubSeq(s, k + 1, k + Len(old)) # old
         IN SubSeq(s, 1, i) \o new \o SubSeq(s, i + Len(old) + 1, Len(s))
    ELSE s

\* str.replace: every non-overlapping occurrence, scanned from the left
RECURSIVE StrReplace(_, _, _)
StrReplace(s, old, new) ==
    IF Len(s) < Len(old) THEN s
    ELSE IF SubSeq(s, 1, Len(old)) = old
         THEN new \o StrReplace(SubSeq(s, Len(old) + 1, Len(s)), old, new)
         ELSE <<s[1]>> \o StrReplace(Tail(s), old, new)

\* int(): the text must be decimal digits and nothing else
IsIntText(s) ==
    /\ s # <<>>
    /\ \A i \in 1..Len(s) : \E d \in 1..Len(Digits) : s[i] = Digits[d]

RECURSIVE Flatten(_)
Flatten(ss) == IF ss = <<>> THEN <<>> ELSE Head(ss) \o Flatten(Tail(ss))

SeqsUpTo(S, n) == UNION {[1..k -> S] : k \in 0..n}

-----------------------------------------------------------------------------
(* run_command and the external tools *)

\* a mutant of Raises: a failed command never raises
RaisesNever(ok, check) == FALSE

\* run_command raises CalledProcessError when the command fails and check is set
Raises(ok, check) == ~ok /\ check

Log(step, arg, ok) == Append(calls, [step |-> step, arg |-> arg, ok |-> ok])

full_job_name == job_name \o <<"-">> \o job_id

\* the order in which helm lists the releases (by name)
ReleaseOrder ==
    <<RelMyRllmProd, RelOther, RelRllmDebugId, RelRllmDebugOld, RelTrainId, RelTrainIdV2>>

ReleaseUniverse == {ReleaseOrder[i] : i \in 1..Len(ReleaseOrder)}

\* the names 'helm list --output json' reports, in order
HelmListing(rels) == SelectSeq(ReleaseOrder, LAMBDA r : r \in rels)

\* the stripped stdout of 'helm list': a header line, then one line per release
HelmListText(rels) ==
    LET rows == HelmListing(rels)
        body == Flatten([i \in 1..Len(rows) |-> <<"\n">> \o rows[i]])
    IN <<"N","A","M","E">> \o body

\* helm uninstall fails on a release that is not there, and may fail otherwise
UninstallOutcomes(name) == IF name \in releases THEN BOOLEAN ELSE {FALSE}

\* helm install fails on a name still in use, and may fail otherwise
InstallOutcomes(name) == IF name \in releases THEN {FALSE} ELSE BOOLEAN

-----------------------------------------------------------------------------
(* cleanup_debug_jobs *)

\* the filter of the list comprehension
MatchesCleanup(name) == Contains(name, RLLM)

\* the condition under which main calls cleanup_debug_jobs
CleanupRequested == Contains(job_name, RLLM)

\* a mutant of CleanupLoopNext: the failure of an uninstall is not caught
CleanupLoopNextUncaught(raised, more) ==
    IF raised THEN "failed" ELSE IF more THEN "cleanup_uninstall" ELSE "tar"

\* the try/except of the uninstall loop: a raise is caught and the loop goes on
CleanupLoopNext(raised, more) == IF more THEN "cleanup_uninstall" ELSE "tar"

-----------------------------------------------------------------------------
(* The values document.  A scalar carries its YAML type and its text; a    *)
(* mapping is a function from its keys.                                    *)

StrScalar(v) == [t |-> "str", v |-> v]
IntScalar(v) == [t |-> "int", v |-> v]

\* the decimal text of a node count
IntText(n) == <<Digits[n + 1]>>

\* d[key] = value on a dict: the key is created when it is missing
SetKey(d, key, value) ==
    [k \in (DOMAIN d) \cup {key} |-> IF k = key THEN value ELSE d[k]]

\* the plain texts the YAML resolver reads as something other than a string
\* (of the scalars of this model: an integer, and the empty text, read as null)
ResolvesToOther(text) == IsIntText(text) \/ text = <<>>

\* yaml.dump of a scalar: a string that would resolve to another type is quoted
DumpScalar(x) ==
    [style |-> IF x.t = "str" /\ ResolvesToOther(x.v) THEN "quoted" ELSE "plain",
     text |-> x.v]

\* yaml.safe_load of a scalar: quoted text is a string, plain text is resolved
LoadScalar(y) ==
    IF y.style = "quoted" THEN StrScalar(y.text)
    ELSE IF IsIntText(y.text) THEN IntScalar(y.text)
    ELSE IF y.text = <<>> THEN [t |-> "null", v |-> <<>>]
    ELSE StrScalar(y.text)

\* the dump or the load of one scalar
ConvScalar(mode, x) == IF mode = "dump" THEN DumpScalar(x) ELSE LoadScalar(x)

\* the document with every scalar of it dumped, or loaded
MapDoc(d, mode) ==
    [k \in DOMAIN d |->
        CASE k = "secrets" ->
                 [s \in DOMAIN d[k] |-> [f \in DOMAIN d[k][s] |-> ConvScalar(mode, d[k][s][f])]]
          [] k = "workload" ->
                 [w \in DOMAIN d[k] |->
                     IF w = "volumes"
                     THEN [gcsMounts |->
                             [i \in DOMAIN d[k][w].gcsMounts |->
                                 [f \in DOMAIN d[k][w].gcsMounts[i] |->
                                     ConvScalar(mode, d[k][w].gcsMounts[i][f])]]]
                     ELSE ConvScalar(mode, d[k][w])]
          [] OTHER -> ConvScalar(mode, d[k])]

YamlDump(d) == MapDoc(d, "dump")
YamlLoad(y) == MapDoc(y, "load")

\* the new bucket name of a mount entry
FixBucket(bucket_name, reg) ==
    IF StartsWith(bucket_name, CKPT_PREFIX) /\ ~Contains(bucket_name, reg)
    THEN CKPT_PREFIX \o <<"-">> \o reg
    ELSE bucket_name

\* a mutant of FixMount: the rewrite also resets the other attributes of the entry
FixMountOnlyBucket(m, reg) == [bucket |-> StrScalar(FixBucket(m.bucket.v, reg))]

\* the body of the loop over gcsMounts
FixMount(m, reg) == [m EXCEPT !.bucket = StrScalar(FixBucket(m.bucket.v, reg))]

\* the new workload script
FixScript(script, n) ==
    IF n = 1 THEN StrReplace(script, MASTER_ADDR, LOCALHOST) ELSE script

\* the document override_values_yaml writes, from the document it loaded
OverrideValues(data, n, key_name, reg) ==
    LET d1 == SetKey(data, "nodes", IntScalar(IntText(n)))
        d2 == [d1 EXCEPT !.secrets.WANDB_API_KEY = SetKey(@, "secret_name", StrScalar(key_name))]
        d3 == [d2 EXCEPT !.workload.script = StrScalar(FixScript(@.v, n))]
    IN [d3 EXCEPT !.workload.volumes.gcsMounts =
            [i \in DOMAIN @ |-> FixMount(@[i], reg)]]

-----------------------------------------------------------------------------
(* The inputs *)

JobNames == {DEBUG_PREFIX, NameTrain}
JobIds == {Id0a1b2c3d, IdDeadbeef}
Regions == {US_CENTRAL1, EU}
Namespaces == {r \in SUBSET ReleaseUniverse : Cardinality(r) <= MaxReleases}

ScriptChunks == {ChunkRun, MASTER_ADDR, ChunkMaster}
Scripts == {Flatten(c) : c \in SeqsUpTo(ScriptChunks, MaxChunks)}

Buckets ==
    {CKPT_PREFIX, CKPT_PREFIX \o <<"-">> \o EU,
     CKPT_PREFIX \o <<"-">> \o US_CENTRAL1, BucketData}
MountLists ==
    {[i \in DOMAIN b |-> [bucket |-> StrScalar(b[i]), mountPath |-> StrScalar(MountPath)]] :
        b \in SeqsUpTo(Buckets, MaxMounts)}

\* values of a key the program does not know: a string, a string that reads
\* as a number, a number, a string holding the placeholder token
OtherScalars == {StrScalar(BucketData), StrScalar(<<"1","2">>), IntScalar(<<"1","2">>), StrScalar(MASTER_ADDR)}

Template(script, mounts, other) ==
    [nodes |-> IntScalar(<<"4">>),
     image |-> other,
     secrets |-> [WANDB_API_KEY |-> [secret_name |-> StrScalar(<<"o","l","d">>),
                                     key |-> StrScalar(<<"7">>)],
                  HF_TOKEN |-> [secret_name |-> StrScalar(<<"h","f">>)]],
     workload |-> [script |-> StrScalar(script),
                   gpus |-> IntScalar(<<"8">>),
                   volumes |-> [gcsMounts |-> mounts]]]

\* the same template without the optional top-level key 'nodes'
WithoutNodes(d) == [k \in (DOMAIN d) \ {"nodes"} |-> d[k]]

Templates ==
    LET full == {Template(s, m, o) : s \in Scripts, m \in MountLists, o \in OtherScalars}
    IN full \cup {WithoutNodes(d) : d \in {x \in full : x.image = StrScalar(BucketData)}}

\* the template of the end-to-end scenario
ScenarioTemplate ==
    Template(ChunkRun \o MASTER_ADDR,
             <<[bucket |-> StrScalar(CKPT_PREFIX), mountPath |-> StrScalar(MountPath)]>>,
             StrScalar(BucketData))

-----------------------------------------------------------------------------
(* main *)

Init ==
    /\ pc = "start"
    /\ job_name \in JobNames
    /\ cleanup_debug_jobs_first \in BOOLEAN
    /\ job_id = <<>>
    /\ releases \in Namespaces
    /\ matching_releases = <<>>
    /\ idx = 1
    /\ calls = <<>>
    /\ files = {}
    /\ presentAtCheck = "unknown"
    /\ template = ScenarioTemplate
    /\ n_nodes = 1
    /\ region = US_CENTRAL1
    /\ wandb_key_name = WANDB_DEFAULT
    /\ tmp_values = <<>>

inputs == <<job_name, cleanup_debug_jobs_first, template, n_nodes, region, wandb_key_name>>

\* generate_job_id, the banner, and the test that guards cleanup_debug_jobs
Launch ==
    /\ pc = "start"
    /\ \E id \in JobIds : job_id' = id
    /\ pc' = IF CleanupRequested THEN "cleanup_list" ELSE "tar"
    /\ UNCHANGED <<inputs, releases, matching_releases, idx, calls, files,
                   presentAtCheck, tmp_values>>

\* cleanup_debug_jobs up to its loop: helm list (check=False), json.loads, the filter
CleanupList ==
    /\ pc = "cleanup_list"
    /\ \E out \in {"json", "empty", "garbage"} :
        LET found == IF out = "json"
                     THEN SelectSeq(HelmListing(releases), MatchesCleanup)
                     ELSE <<>>
        IN /\ calls' = Log("cleanup_list", <<>>, out # "empty")
           /\ matching_releases' = found
           /\ pc' = IF found = <<>> THEN "tar" ELSE "cleanup_uninstall"
    /\ idx' = 1
    /\ UNCHANGED <<inputs, job_id, releases, files, presentAtCheck, tmp_values>>

\* one turn of the uninstall loop of cleanup_debug_jobs
CleanupUninstall ==
    /\ pc = "cleanup_uninstall"
    /\ LET release_name == matching_releases[idx] IN
       \E ok \in UninstallOutcomes(release_name) :
        /\ calls' = Log("cleanup_uninstall", release_name, ok)
        /\ releases' = IF ok THEN releases \ {release_name} ELSE releases
        /\ pc' = CleanupLoopNext(Raises(ok, TRUE), idx < Len(matching_releases))
    /\ idx' = idx + 1
    /\ UNCHANGED <<inputs, job_id, matching_releases, files, presentAtCheck, tmp_values>>

\* step 1: mkstemp, then the tar command
Tar ==
    /\ pc = "tar"
    /\ files' = files \cup {"tar"}
    /\ \E ok \in BOOLEAN :
        /\ calls' = Log("tar", <<>>, ok)
        /\ pc' = IF Raises(ok, TRUE) THEN "failed" ELSE "tar_verify"
    /\ UNCHANGED <<inputs, job_id, releases, matching_releases, idx,
                   presentAtCheck, tmp_values>>

\* step 1: the listing of the first entries of the archive
TarVerify ==
    /\ pc = "tar_verify"
    /\ \E ok \in BOOLEAN :
        /\ calls' = Log("tar_verify", <<>>, ok)
        /\ pc' = IF Raises(ok, TRUE) THEN "failed" ELSE "r2e_check"
    /\ UNCHANGED <<inputs, job_id, releases, matching_releases, idx, files,
                   presentAtCheck, tmp_values>>

\* the stdout of "tar -tzf .. | grep -c 'R2E-Gym' || echo '0'", stripped: grep -c
\* prints the count and exits 1 on a count of 0, so that echo prints one more line
R2EOutput(out) ==
    CASE out = "found" -> <<"2">>
      [] out = "none" -> <<"0", "\n", "0">>
      [] out = "silent" -> <<"0">>

\* step 1: the count of R2E-Gym entries (check=False) and int() of it
R2ECheck ==
    /\ pc = "r2e_check"
    /\ \E out \in {"found", "none", "silent"} :
        /\ calls' = Log("r2e_check", <<>>, TRUE)
        /\ pc' = IF IsIntText(R2EOutput(out)) THEN "upload_code" ELSE "failed"
    /\ UNCHANGED <<inputs, job_id, releases, matching_releases, idx, files,
                   presentAtCheck, tmp_values>>

\* step 2: gsutil cp of the bundle, then os.remove of it
UploadCode ==
    /\ pc = "upload_code"
    /\ \E ok \in BOOLEAN :
        /\ calls' = Log("upload_code", <<>>, ok)
        /\ IF Raises(ok, TRUE)
           THEN pc' = "failed" /\ files' = files
           ELSE pc' = "upload_config" /\ files' = files \ {"tar"}
    /\ UNCHANGED <<inputs, job_id, releases, matching_releases, idx,
                   presentAtCheck, tmp_values>>

\* step 3: gsutil cp of the config
UploadConfig ==
    /\ pc = "upload_config"
    /\ \E ok \in BOOLEAN :
        /\ calls' = Log("upload_config", <<>>, ok)
        /\ pc' = IF Raises(ok, TRUE) THEN "failed" ELSE "override"
    /\ UNCHANGED <<inputs, job_id, releases, matching_releases, idx, files,
                   presentAtCheck, tmp_values>>

\* step 4: override_values_yaml
Override ==
    /\ pc = "override"
    /\ tmp_values' = YamlDump(OverrideValues(template, n_nodes, wandb_key_name, region))
    /\ files' = files \cup {"values"}
    /\ pc' = "helm_list"
    /\ UNCHANGED <<inputs, job_id, releases, matching_releases, idx, calls,
                   presentAtCheck>>

\* step 5: helm list (check=False) and the test on its output
HelmList ==
    /\ pc = "helm_list"
    /\ \E ok \in BOOLEAN :
        LET helm_list == IF ok THEN HelmListText(releases) ELSE <<>> IN
        /\ calls' = Log("helm_list", <<>>, ok)
        /\ pc' = IF Contains(helm_list, full_job_name) THEN "deploy_uninstall" ELSE "install"
    /\ presentAtCheck' = IF full_job_name \in releases THEN "yes" ELSE "no"
    /\ UNCHANGED <<inputs, job_id, releases, matching_releases, idx, files, tmp_values>>

\* step 5: helm uninstall of the existing job
DeployUninstall ==
    /\ pc = "deploy_uninstall"
    /\ \E ok \in UninstallOutcomes(full_job_name) :
        /\ calls' = Log("deploy_uninstall", full_job_name, ok)
        /\ releases' = IF ok THEN releases \ {full_job_name} ELSE releases
        /\ pc' = IF Raises(ok, TRUE) THEN "failed" ELSE "install"
    /\ UNCHANGED <<inputs, job_id, matching_releases, idx, files, presentAtCheck,
                   tmp_values>>

\* step 6: helm install, then os.remove of the values file and the summary
Install ==
    /\ pc = "install"
    /\ \E ok \in InstallOutcomes(full_job_name) :
        /\ calls' = Log("install", full_job_name, ok)
        /\ releases' = IF ok THEN releases \cup {full_job_name} ELSE releases
        /\ IF Raises(ok, TRUE)
           THEN pc' = "failed" /\ files' = files
           ELSE pc' = "done" /\ files' = files \ {"values"}
    /\ UNCHANGED <<inputs, job_id, matching_releases, idx, presentAtCheck, tmp_values>>

Next ==
    \/ Launch
    \/ CleanupList
    \/ CleanupUninstall
    \/ Tar
    \/ TarVerify
    \/ R2ECheck
    \/ UploadCode
    \/ UploadConfig
    \/ Override
    \/ HelmList
    \/ DeployUninstall
    \/ Install

Spec == Init /\ [][Next]_vars

-----------------------------------------------------------------------------
(* override_values_yaml on its own: main at step 4, for every template *)

\* the commands of a run that reached step 4 without the cleanup
CallsBeforeOverride ==
    [i \in 1..5 |->
        [step |-> <<"tar", "tar_verify", "r2e_check", "upload_code", "upload_config">>[i],
         arg |-> <<>>, ok |-> TRUE]]

InitValues ==
    /\ pc = "override"
    /\ job_name = NameTrain
    /\ cleanup_debug_jobs_first = TRUE
    /\ job_id = IdDeadbeef
    /\ releases = {}
    /\ matching_releases = <<>>
    /\ idx = 1
    /\ calls = CallsBeforeOverride
    /\ files = {}
    /\ presentAtCheck = "unknown"
    /\ template \in Templates
    /\ n_nodes \in 1..MaxNodes
    /\ region \in Regions
    /\ wandb_key_name = WANDB_DEFAULT
    /\ tmp_values = <<>>

NextValues == Override

SpecValues == InitValues /\ [][NextValues]_vars

-----------------------------------------------------------------------------
(* What the claims speak of *)

Terminated == pc \in {"done", "failed"}

CallsAt(step) == SelectSeq(calls, LAMBDA c : c.step = step)

ArgsOf(cs) == [i \in DOMAIN cs |-> cs[i].arg]

CleanupSteps == {"cleanup_list", "cleanup_uninstall"}

FatalSteps == {"tar", "upload_code", "upload_config", "install"}

\* every scalar of a document with the path of keys that leads to it
Leaves(d) ==
    LET m == d.workload.volumes.gcsMounts IN
    {<<<<k>>, d[k]>> : k \in (DOMAIN d) \ {"secrets", "workload"}}
    \cup UNION {{<<<<"secrets", s, f>>, d.secrets[s][f]>> : f \in DOMAIN d.secrets[s]} :
                    s \in DOMAIN d.secrets}
    \cup {<<<<"workload", w>>, d.workload[w]>> : w \in (DOMAIN d.workload) \ {"volumes"}}
    \cup UNION {{<<<<"workload", "volumes", "gcsMounts", i, f>>, m[i][f]>> : f \in DOMAIN m[i]} :
                    i \in DOMAIN m}

\* the fields override_values_yaml is to change
IsListed(path) ==
    \/ path = <<"nodes">>
    \/ path = <<"secrets", "WANDB_API_KEY", "secret_name">>
    \/ path = <<"workload", "script">>
    \/ (Len(path) = 5 /\ path[5] = "bucket")

Unlisted(d) == {l \in Leaves(d) : ~IsListed(l[1])}

Written == tmp_values # <<>>

\* the document a reader of the temporary values file gets
Output == YamlLoad(tmp_values)

InMounts == template.workload.volumes.gcsMounts
OutMounts == Output.workload.volumes.gcsMounts

\* C1: when no release named exactly full_job_name is in the namespace at the
\* check of step 5, the deploy step issues no helm uninstall, and one helm install
C1_DeployAbsent ==
    presentAtCheck = "no" =>
        /\ CallsAt("deploy_uninstall") = <<>>
        /\ Terminated => Len(CallsAt("install")) = 1

\* C2: when a release named full_job_name is in the namespace at the check of
\* step 5, helm install is attempted only after one helm uninstall of that name,
\* with the release gone, whatever helm list returned
C2_DeployPresent ==
    (presentAtCheck = "yes" /\ (pc = "install" \/ CallsAt("install") # <<>>)) =>
        /\ ArgsOf(CallsAt("deploy_uninstall")) = <<full_job_name>>
        /\ pc = "install" => full_job_name \notin releases
        /\ Len(CallsAt("install")) <= 1

\* C3: a bucket name that starts with the checkpoint prefix and lacks the region
\* gets '-<region>' appended to the whole original name; every other bucket name
\* is unchanged
C3_BucketRegion ==
    Written =>
        /\ Len(OutMounts) = Len(InMounts)
        /\ \A i \in DOMAIN InMounts :
            LET b == InMounts[i].bucket.v IN
            OutMounts[i].bucket.v =
                IF StartsWith(b, CKPT_PREFIX) /\ ~Contains(b, region)
                THEN b \o <<"-">> \o region
                ELSE b

\* C4 as stated: with one node no scalar of the output document holds the
\* placeholder token, and with more nodes every scalar of the template that
\* holds it still holds it in the output
C4_NoTokenInDocument ==
    Written =>
        /\ n_nodes = 1 => \A l \in Leaves(Output) : ~Contains(l[2].v, MASTER_ADDR)
        /\ n_nodes > 1 =>
            \A l \in Leaves(template) :
                Contains(l[2].v, MASTER_ADDR) =>
                    \E o \in Leaves(Output) : o[1] = l[1] /\ Contains(o[2].v, MASTER_ADDR)

\* C4 as amended: with one node the workload script of the output holds no
\* placeholder token, and with more nodes the workload script is the template's
C4_ScriptToken ==
    Written =>
        /\ n_nodes = 1 => ~Contains(Output.workload.script.v, MASTER_ADDR)
        /\ n_nodes > 1 => Output.workload.script = template.workload.script

C4_Witness ==
    /\ Written
    /\ n_nodes = 1
    /\ template.workload.script.v = MASTER_ADDR \o MASTER_ADDR
    /\ Output.workload.script.v = LOCALHOST \o LOCALHOST

C6_CleanupTolerant ==
    LET attempts == ArgsOf(CallsAt("cleanup_uninstall")) IN
    /\ pc = "cleanup_uninstall" => attempts = SubSeq(matching_releases, 1, idx - 1)
    /\ pc \notin {"start", "cleanup_list", "cleanup_uninstall"} => attempts = matching_releases
    /\ \A i \in DOMAIN calls :
        calls[i].step \in CleanupSteps =>
            IF i < Len(calls)
            THEN calls[i + 1].step \in {"cleanup_uninstall", "tar"}
            ELSE pc \in {"cleanup_uninstall", "tar"}

C6_Witness ==
    /\ \E i, j \in DOMAIN calls :
        /\ i < j
        /\ calls[i].step = "cleanup_uninstall" /\ ~calls[i].ok
        /\ calls[j].step = "cleanup_uninstall"
    /\ CallsAt("tar") # <<>>
    /\ Len(matching_releases) >= 2

\* C7: when main has ended, by success or by failure, neither temporary file exists
C7_TempFilesRemoved == Terminated => files = {}

\* C8: a failed tar, upload or install is the last command of the run, which
\* ends failed; a run that prints the summary has run each of them once, with success
C8_FatalAbort ==
    /\ \A i \in DOMAIN calls :
        (calls[i].step \in FatalSteps /\ ~calls[i].ok) => (i = Len(calls) /\ pc = "failed")
    /\ pc = "done" =>
        \A s \in FatalSteps : Len(CallsAt(s)) = 1 /\ CallsAt(s)[1].ok

C8_Witness ==
    /\ pc = "failed"
    /\ calls[Len(calls)].step = "upload_code"
    /\ ~calls[Len(calls)].ok
    /\ "tar" \in files

\* C9: main runs cleanup_debug_jobs if and only if cleanup_debug_jobs_first is true
C9_CleanupFlag ==
    pc # "start" =>
        ((pc = "cleanup_list" \/ CallsAt("cleanup_list") # <<>>) <=> cleanup_debug_jobs_first)

\* C10: the cleanup passes to helm uninstall only releases whose name starts with
\* the prefix 'rllm-debug', and every listed release whose name starts with it
C10_CleanupPrefix ==
    /\ \A i \in DOMAIN calls :
        calls[i].step = "cleanup_uninstall" => StartsWith(calls[i].arg, DEBUG_PREFIX)
    /\ (pc \in {"cleanup_uninstall", "tar"} /\ matching_releases # <<>>) =>
        \A r \in releases :
            StartsWith(r, DEBUG_PREFIX) => \E i \in DOMAIN matching_releases : matching_releases[i] = r

====
